---- MODULE Spec2Model ----
(***************************************************************************)
(* State machine of the ContributionGraph widget                           *)
(* (src/src/components/ContributionGraph.tsx).                             *)
(*                                                                         *)
(* The variables are the component's React state plus the fetches in       *)
(* flight.  One action is one DOM event or one promise settlement: the     *)
(* handler's batched state updates, the render they cause and the effects  *)
(* that render triggers (React runs them before the next event is          *)
(* dispatched) are one step.  The component is only mounted with a         *)
(* non-empty username (src/src/App.tsx:113), which never changes, so the   *)
(* fetch effect's dependencies that can change are year and                *)
(* availableYears.length.                                                  *)
(***************************************************************************)
EXTENDS Integers, Sequences, FiniteSets, TLC

VARIABLES data, loading, error, year, availableYears, hovered, isMobile,
          activeTouch, inflight, lastEvent

\* The two pure computations of the file, processData and the Tooltip's
\* placement effect, are checked on their own inputs: `phase` says which part
\* a behaviour exercises ("widget" for the state machine above).
VARIABLES phase, targetRect, tooltip, viewportWidth, coords, apiData, weeks

widgetVars == <<data, loading, error, year, availableYears, hovered, isMobile,
                activeTouch, inflight, lastEvent>>

pureVars == <<phase, targetRect, tooltip, viewportWidth, coords, apiData,
              weeks>>

vars == <<widgetVars, pureVars>>

\* ----- bounds -----
\* number of explicit year keys the API may report
MaxYears == 3
\* number of distinct day records the API may return
MaxDates == 2

\* ----- values -----
Null == "null"
Undefined == "undefined"
Last == "last"

YearNames == <<"2023", "2024", "2025", "2026", "2027", "2028">>
YearKeys == {YearNames[k] : k \in 1..MaxYears}
\* Number(y) for a year key
Number(y) == 2022 + (CHOOSE k \in DOMAIN YearNames : YearNames[k] = y)

DateNames == <<"2025-01-05", "2025-01-06", "2025-01-07", "2025-01-08">>
\* a Contribution is identified by its date (it is the cell's React key)
Dates == {DateNames[k] : k \in 1..MaxDates}

\* data === null
NullData == [y |-> Null, contributions |-> {}]

\* decoded API responses: total may be missing; its keys are year strings
\* and "lastYear"
Responses ==
  [hasTotal : {TRUE}, total : SUBSET (YearKeys \cup {"lastYear"}),
   contributions : SUBSET Dates]
  \cup [hasTotal : {FALSE}, total : {{}}, contributions : SUBSET Dates]

\* err.message for a non-OK response and for a thrown network/parse error
ErrorMessages == {"User not found or API error", "Failed to fetch"}

\* the event handled last: its type, the cell it hit (if any), the cell
\* whose tooltip was open when it arrived and, for a resolved fetch, the keys
\* of the response's total
MountEvent == [type |-> "mount", cell |-> Null, shown |-> Null, total |-> {}]

\* ----- array helpers with the semantics of the JavaScript built-ins -----
\* arr[i], 0-based; undefined outside the array
At(arr, i) == IF i + 1 \in DOMAIN arr THEN arr[i + 1] ELSE Undefined

\* arr.indexOf(x), 0-based; -1 when absent
IndexOf(arr, x) ==
  IF \E i \in DOMAIN arr : arr[i] = x
  THEN (CHOOSE i \in DOMAIN arr :
          arr[i] = x /\ \A j \in DOMAIN arr : arr[j] = x => i <= j) - 1
  ELSE -1

RemoveAt(s, i) == SubSeq(s, 1, i - 1) \o SubSeq(s, i + 1, Len(s))

RECURSIVE sortAscending(_)
sortAscending(S) ==
  IF S = {} THEN <<>>
  ELSE LET m == CHOOSE x \in S : \A z \in S : Number(x) <= Number(z)
       IN <<m>> \o sortAscending(S \ {m})

\* keys.sort((a, b) => Number(b) - Number(a))
RECURSIVE sortDescending(_)
sortDescending(S) ==
  IF S = {} THEN <<>>
  ELSE LET m == CHOOSE x \in S : \A z \in S : Number(x) >= Number(z)
       IN <<m>> \o sortDescending(S \ {m})

\* ----- year navigation -----
currentYearIndex ==
  IF year = Last THEN -1 ELSE IndexOf(availableYears, year)

canGoPrev_OffByOne ==
  IF Len(availableYears) = 0 THEN FALSE
  ELSE IF year = Last THEN TRUE
  ELSE currentYearIndex <= Len(availableYears) - 1

canGoPrev_IgnoresIndex == Len(availableYears) # 0

canGoPrev ==
  IF Len(availableYears) = 0 THEN FALSE
  ELSE IF year = Last THEN TRUE
  ELSE currentYearIndex < Len(availableYears) - 1

canGoNext ==
  IF Len(availableYears) = 0 THEN FALSE
  ELSE year # Last

\* the value handleYearChange(dir) leaves in `year`
handleYearChange_SkipsNewest(dir) ==
  IF dir = "prev" /\ canGoPrev
  THEN At(availableYears, currentYearIndex + 2)
  ELSE IF dir = "next" /\ canGoNext
  THEN IF currentYearIndex = 0 THEN Last
       ELSE At(availableYears, currentYearIndex - 1)
  ELSE year

handleYearChange_NeverLast(dir) ==
  IF dir = "prev" /\ canGoPrev
  THEN IF year = Last THEN At(availableYears, 0)
       ELSE At(availableYears, currentYearIndex + 1)
  ELSE IF dir = "next" /\ canGoNext
  THEN At(availableYears, currentYearIndex - 1)
  ELSE year

handleYearChange_NextResets(dir) ==
  IF dir = "prev" /\ canGoPrev
  THEN IF year = Last THEN At(availableYears, 0)
       ELSE At(availableYears, currentYearIndex + 1)
  ELSE IF dir = "next" /\ canGoNext
  THEN Last
  ELSE year

handleYearChange(dir) ==
  IF dir = "prev" /\ canGoPrev
  THEN IF year = Last THEN At(availableYears, 0)
       ELSE At(availableYears, currentYearIndex + 1)
  ELSE IF dir = "next" /\ canGoNext
  THEN IF currentYearIndex = 0 THEN Last
       ELSE At(availableYears, currentYearIndex - 1)
  ELSE year

\* ----- what is rendered -----
\* the error view replaces the whole widget, container and tooltip included
containerRefCurrent == error = Null

\* the <rect> elements: none in the error view or under the loading skeleton
RenderedCells ==
  IF error # Null \/ loading THEN {} ELSE data.contributions

TooltipShown_WhileActiveTouch ==
  error = Null /\ (hovered # Null \/ activeTouch # Null)

\* {hovered && <Tooltip .../>}
TooltipShown == error = Null /\ hovered # Null

\* ContributionGraph's own tooltipRef: created, never attached to an element
tooltipRefCurrent == Null

\* ----- cell interaction: the pair (hovered, activeTouch) a handler leaves --
Keep == [hovered |-> hovered, activeTouch |-> activeTouch]

handleTileInteraction(day) ==
  IF ~containerRefCurrent THEN Keep
  ELSE [hovered |-> day, activeTouch |-> day]

handleTileMouseEnter(day) ==
  IF isMobile THEN Keep ELSE handleTileInteraction(day)

handleTileMouseLeave_Latching ==
  IF isMobile \/ activeTouch # Null THEN Keep
  ELSE [hovered |-> Null, activeTouch |-> activeTouch]

handleTileMouseLeave ==
  IF isMobile THEN Keep
  ELSE [hovered |-> Null, activeTouch |-> activeTouch]

handleTileTouch_NoToggle(day) == handleTileInteraction(day)

handleTileTouch_ClearFirst(day) ==
  IF activeTouch # Null
  THEN [hovered |-> Null, activeTouch |-> Null]
  ELSE handleTileInteraction(day)

handleTileTouch(day) ==
  IF activeTouch = day
  THEN [hovered |-> Null, activeTouch |-> Null]
  ELSE handleTileInteraction(day)

\* the document listener exists only while isMobile && activeTouch
outsideListenerRegistered == isMobile /\ activeTouch # Null

\* targetInTooltip: tooltipRef.current.contains(e.target)
handleOutsideClick(targetInTooltip) ==
  IF tooltipRefCurrent # Null /\ ~targetInTooltip
  THEN [hovered |-> Null, activeTouch |-> Null]
  ELSE Keep

\* ----- the fetch effect -----
\* dependency list [username, year, availableYears.length]
depsChanged_YearIgnored(newYear, newLength) ==
  newLength # Len(availableYears)

depsChanged(newYear, newLength) ==
  newYear # year \/ newLength # Len(availableYears)

Event(t, c) == [type |-> t, cell |-> c, shown |-> hovered, total |-> {}]

ResolveEvent(json) ==
  [type |-> "resolve", cell |-> Null, shown |-> hovered, total |-> json.total]

\* a request remembers the token it asked for and the availableYears.length
\* its closure captured
Request(token, length) == [y |-> token, len |-> length]

WidgetInit ==
  /\ data = NullData
  /\ loading = TRUE
  /\ error = Null
  /\ year = Last
  /\ availableYears = <<>>
  /\ hovered = Null
  /\ isMobile \in BOOLEAN
  /\ activeTouch = Null
  /\ inflight = <<Request(Last, 0)>>
  /\ lastEvent = MountEvent

\* no Tooltip is mounted, no grid is being built
PureIdle ==
  /\ targetRect = Null
  /\ tooltip = Null
  /\ viewportWidth = Null
  /\ coords = Null
  /\ apiData = Null
  /\ weeks = Null

Init == WidgetInit /\ phase = "widget" /\ PureIdle

ClickPrev_EnabledWhileLoading ==
  /\ error = Null
  /\ canGoPrev
  /\ LET newYear == handleYearChange("prev") IN
       /\ year' = newYear
       /\ IF depsChanged(newYear, Len(availableYears))
          THEN /\ loading' = TRUE
               /\ error' = Null
               /\ inflight' = Append(inflight, Request(newYear, Len(availableYears)))
          ELSE UNCHANGED <<loading, error, inflight>>
  /\ lastEvent' = Event("prev", Null)
  /\ UNCHANGED pureVars
  /\ UNCHANGED <<data, availableYears, hovered, isMobile, activeTouch>>

\* a click on the "Previous year" button (not rendered in the error view,
\* disabled while !canGoPrev || loading): handler, render, fetch effect
ClickPrev ==
  /\ error = Null
  /\ ~loading
  /\ canGoPrev
  /\ LET newYear == handleYearChange("prev") IN
       /\ year' = newYear
       /\ IF depsChanged(newYear, Len(availableYears))
          THEN /\ loading' = TRUE
               /\ error' = Null
               /\ inflight' = Append(inflight, Request(newYear, Len(availableYears)))
          ELSE UNCHANGED <<loading, error, inflight>>
  /\ lastEvent' = Event("prev", Null)
  /\ UNCHANGED pureVars
  /\ UNCHANGED <<data, availableYears, hovered, isMobile, activeTouch>>

\* a click on the "Next year" button (disabled while !canGoNext || loading)
ClickNext ==
  /\ error = Null
  /\ ~loading
  /\ canGoNext
  /\ LET newYear == handleYearChange("next") IN
       /\ year' = newYear
       /\ IF depsChanged(newYear, Len(availableYears))
          THEN /\ loading' = TRUE
               /\ error' = Null
               /\ inflight' = Append(inflight, Request(newYear, Len(availableYears)))
          ELSE UNCHANGED <<loading, error, inflight>>
  /\ lastEvent' = Event("next", Null)
  /\ UNCHANGED pureVars
  /\ UNCHANGED <<data, availableYears, hovered, isMobile, activeTouch>>

TileMouseEnter ==
  \E day \in RenderedCells :
    /\ hovered' = handleTileMouseEnter(day).hovered
    /\ activeTouch' = handleTileMouseEnter(day).activeTouch
    /\ lastEvent' = Event("enter", day)
    /\ UNCHANGED pureVars
    /\ UNCHANGED <<data, loading, error, year, availableYears, isMobile, inflight>>

TileMouseLeave ==
  \E day \in RenderedCells :
    /\ hovered' = handleTileMouseLeave.hovered
    /\ activeTouch' = handleTileMouseLeave.activeTouch
    /\ lastEvent' = Event("leave", day)
    /\ UNCHANGED pureVars
    /\ UNCHANGED <<data, loading, error, year, availableYears, isMobile, inflight>>

TileTouch_Refetches ==
  \E day \in RenderedCells :
    /\ hovered' = handleTileTouch(day).hovered
    /\ activeTouch' = handleTileTouch(day).activeTouch
    /\ loading' = TRUE
    /\ inflight' = Append(inflight, Request(year, Len(availableYears)))
    /\ lastEvent' = Event("tap", day)
    /\ UNCHANGED pureVars
    /\ UNCHANGED <<data, error, year, availableYears, isMobile>>

TileTouch_Reclassifies ==
  \E day \in RenderedCells :
    /\ hovered' = handleTileTouch(day).hovered
    /\ activeTouch' = handleTileTouch(day).activeTouch
    /\ isMobile' = TRUE
    /\ lastEvent' = Event("tap", day)
    /\ UNCHANGED pureVars
    /\ UNCHANGED <<data, loading, error, year, availableYears, inflight>>

TileTouch ==
  \E day \in RenderedCells :
    /\ hovered' = handleTileTouch(day).hovered
    /\ activeTouch' = handleTileTouch(day).activeTouch
    /\ lastEvent' = Event("tap", day)
    /\ UNCHANGED pureVars
    /\ UNCHANGED <<data, loading, error, year, availableYears, isMobile, inflight>>

\* a touchstart/click that reaches the document listener; the tooltip has
\* pointer-events: none, so the target is never inside it
OutsideClick ==
  /\ outsideListenerRegistered
  /\ hovered' = handleOutsideClick(FALSE).hovered
  /\ activeTouch' = handleOutsideClick(FALSE).activeTouch
  /\ lastEvent' = Event("outside", Null)
  /\ UNCHANGED pureVars
  /\ UNCHANGED <<data, loading, error, year, availableYears, isMobile, inflight>>

\* window resize: checkMobile re-classifies
Resize ==
  /\ isMobile' \in BOOLEAN
  /\ lastEvent' = Event("resize", Null)
  /\ UNCHANGED pureVars
  /\ UNCHANGED <<data, loading, error, year, availableYears, hovered,
                 activeTouch, inflight>>

\* a fetch resolves with an OK, decodable response
FetchSuccess ==
  \E i \in DOMAIN inflight : \E json \in Responses :
    LET req == inflight[i]
        years == sortDescending({k \in json.total : k # "lastYear"})
        newYears == IF req.len = 0 /\ json.hasTotal THEN years
                    ELSE availableYears
        rest == RemoveAt(inflight, i)
    IN /\ data' = [y |-> req.y, contributions |-> json.contributions]
       /\ availableYears' = newYears
       /\ IF depsChanged(year, Len(newYears))
          THEN /\ loading' = TRUE
               /\ error' = Null
               /\ inflight' = Append(rest, Request(year, Len(newYears)))
          ELSE /\ loading' = FALSE
               /\ error' = error
               /\ inflight' = rest
       /\ lastEvent' = ResolveEvent(json)
       /\ UNCHANGED pureVars
       /\ UNCHANGED <<year, hovered, isMobile, activeTouch>>

FetchFailure_ClearsData ==
  \E i \in DOMAIN inflight : \E msg \in ErrorMessages :
    /\ error' = msg
    /\ loading' = FALSE
    /\ data' = NullData
    /\ inflight' = RemoveAt(inflight, i)
    /\ lastEvent' = Event("reject", Null)
    /\ UNCHANGED pureVars
    /\ UNCHANGED <<year, availableYears, hovered, isMobile, activeTouch>>

FetchFailure_NoFinally ==
  \E i \in DOMAIN inflight : \E msg \in ErrorMessages :
    /\ error' = msg
    /\ inflight' = RemoveAt(inflight, i)
    /\ lastEvent' = Event("reject", Null)
    /\ UNCHANGED pureVars
    /\ UNCHANGED <<data, loading, year, availableYears, hovered, isMobile,
                   activeTouch>>

\* a fetch fails: non-OK response, network error or undecodable body
FetchFailure ==
  \E i \in DOMAIN inflight : \E msg \in ErrorMessages :
    /\ error' = msg
    /\ loading' = FALSE
    /\ inflight' = RemoveAt(inflight, i)
    /\ lastEvent' = Event("reject", Null)
    /\ UNCHANGED pureVars
    /\ UNCHANGED <<data, year, availableYears, hovered, isMobile, activeTouch>>

\* the error view's Retry button: window.location.reload()
Retry ==
  /\ error # Null
  /\ data' = NullData
  /\ loading' = TRUE
  /\ error' = Null
  /\ year' = Last
  /\ availableYears' = <<>>
  /\ hovered' = Null
  /\ isMobile' \in BOOLEAN
  /\ activeTouch' = Null
  /\ inflight' = <<Request(Last, 0)>>
  /\ lastEvent' = MountEvent
  /\ UNCHANGED pureVars

Next ==
  \/ ClickPrev
  \/ ClickNext
  \/ TileMouseEnter
  \/ TileMouseLeave
  \/ TileTouch
  \/ OutsideClick
  \/ Resize
  \/ FetchSuccess
  \/ FetchFailure
  \/ Retry

Spec == Init /\ [][Next]_vars

\* the network call returns: a fetch in flight is eventually settled
FairSpec == Spec /\ WF_vars(FetchSuccess \/ FetchFailure)

\* ---------------------------------------------------------------------------
\* Tooltip placement: the layout effect of the Tooltip component.
\* Lengths are CSS pixels.  Widths are drawn from the even numbers, so that
\* width / 2 is the exact half the code computes.

\* targetRect.left is 0 .. MaxLeft
MaxLeft == 70
\* the grid's top edge is 5 .. 5 + MaxExtraGridTop below the viewport's
MaxExtraGridTop == 3
\* tooltip widths are 100, 102, .., 100 + 2 * MaxExtraHalfWidth
MaxExtraHalfWidth == 1
\* tooltip heights are 40 .. 40 + MaxExtraHeight
MaxExtraHeight == 0
\* window.innerWidth is 110 .. 110 + MaxExtraViewport
MaxExtraViewport == 40

SQUARE_SIZE == 10
GAP == 3
TOOLTIP_OFFSET == 8
padding == 12

\* y of a cell's top edge: row dIndex of 7 under the grid's top edge
Tops ==
  {g + dIndex * (SQUARE_SIZE + GAP) :
     g \in 5..(5 + MaxExtraGridTop), dIndex \in 0..6}

\* getBoundingClientRect() of a cell: a SQUARE_SIZE square
Rects ==
  {[left |-> l, top |-> t, width |-> SQUARE_SIZE, height |-> SQUARE_SIZE,
    bottom |-> t + SQUARE_SIZE] : l \in 0..MaxLeft, t \in Tops}

\* getBoundingClientRect() of the rendered tooltip
TooltipBoxes ==
  [width : {100 + 2 * k : k \in 0..MaxExtraHalfWidth},
   height : {40 + h : h \in 0..MaxExtraHeight}]

Viewports == {110 + v : v \in 0..MaxExtraViewport}

\* let left = targetRect.left + targetRect.width / 2
idealLeft(rect) == rect.left + rect.width \div 2

placeFlipped_Inclusive(rect, tip) ==
  rect.top <= tip.height + TOOLTIP_OFFSET + padding

\* spaceAbove < requiredSpace
placeFlipped(rect, tip) ==
  LET spaceAbove == rect.top
      requiredSpace == tip.height + TOOLTIP_OFFSET + padding
  IN spaceAbove < requiredSpace

placeTop(rect, tip) ==
  IF placeFlipped(rect, tip) THEN rect.bottom + TOOLTIP_OFFSET
  ELSE rect.top - TOOLTIP_OFFSET

placeLeft_NoRightClamp(rect, tip, vw) ==
  LET left == idealLeft(rect)
      halfWidth == tip.width \div 2
  IN IF left - halfWidth < padding THEN halfWidth + padding ELSE left

placeLeft_LeftEdgeAtZero(rect, tip, vw) ==
  LET left == idealLeft(rect)
      halfWidth == tip.width \div 2
  IN IF left - halfWidth < padding THEN halfWidth
     ELSE IF left + halfWidth > vw - padding THEN vw - halfWidth - padding
     ELSE left

placeLeft_RightEdgeAtViewport(rect, tip, vw) ==
  LET left == idealLeft(rect)
      halfWidth == tip.width \div 2
  IN IF left - halfWidth < padding THEN halfWidth + padding
     ELSE IF left + halfWidth > vw - padding THEN vw - halfWidth
     ELSE left

\* the horizontal viewport bound enforcement: the value left ends with
placeLeft(rect, tip, vw) ==
  LET left == idealLeft(rect)
      halfWidth == tip.width \div 2
  IN IF left - halfWidth < padding THEN halfWidth + padding
     ELSE IF left + halfWidth > vw - padding THEN vw - halfWidth - padding
     ELSE left

placeArrowOffset_Reversed(rect, tip, vw) ==
  placeLeft(rect, tip, vw) - idealLeft(rect)

\* arrowOffset: 0, or idealLeft - left in the branch that moved left
placeArrowOffset(rect, tip, vw) ==
  LET left == idealLeft(rect)
      halfWidth == tip.width \div 2
  IN IF left - halfWidth < padding THEN left - placeLeft(rect, tip, vw)
     ELSE IF left + halfWidth > vw - padding THEN left - placeLeft(rect, tip, vw)
     ELSE 0

\* the Tooltip has rendered once, hidden (coords === null), for a cell
InitPlace ==
  /\ WidgetInit
  /\ isMobile = FALSE
  /\ phase = "measure"
  /\ targetRect \in Rects
  /\ tooltip \in TooltipBoxes
  /\ viewportWidth \in Viewports
  /\ coords = Null
  /\ apiData = Null
  /\ weeks = Null

\* React.useLayoutEffect(() => { ... setCoords(...) }, [targetRect])
Place ==
  /\ phase = "measure"
  /\ coords' = [top |-> placeTop(targetRect, tooltip),
                left |-> placeLeft(targetRect, tooltip, viewportWidth),
                arrowOffset |-> placeArrowOffset(targetRect, tooltip, viewportWidth),
                flipped |-> placeFlipped(targetRect, tooltip)]
  /\ phase' = "placed"
  /\ UNCHANGED <<targetRect, tooltip, viewportWidth, apiData, weeks>>
  /\ UNCHANGED widgetVars

NextPlace == Place

SpecPlace == InitPlace /\ [][NextPlace]_vars

\* ---------------------------------------------------------------------------
\* A window resize while a Tooltip is open.

\* a resize event changes window.innerWidth by ResizeStep, either way
ResizeStep == 10

\* a tap has opened the tooltip of a cell in touch-only mode (every width in
\* Viewports matches max-width: 768px); the Tooltip has rendered once, hidden
InitResize ==
  /\ data = [y |-> Last, contributions |-> Dates]
  /\ loading = FALSE
  /\ error = Null
  /\ year = Last
  /\ availableYears = <<>>
  /\ hovered = DateNames[1]
  /\ isMobile = TRUE
  /\ activeTouch = DateNames[1]
  /\ inflight = <<>>
  /\ lastEvent = [type |-> "tap", cell |-> DateNames[1], shown |-> Null,
                  total |-> {}]
  /\ phase = "measure"
  /\ targetRect \in Rects
  /\ tooltip \in TooltipBoxes
  /\ viewportWidth \in Viewports
  /\ coords = Null
  /\ apiData = Null
  /\ weeks = Null

\* window resize with the Tooltip mounted: checkMobile stores the same mode
\* (no re-render); hovered and its rect are not touched, so targetRect is the
\* same object and the layout effect, whose dependencies are [targetRect],
\* does not run: coords stays
ResizeTooltip ==
  /\ phase = "placed"
  /\ \E vw \in Viewports :
       /\ vw \in {viewportWidth - ResizeStep, viewportWidth + ResizeStep}
       /\ viewportWidth' = vw
  /\ phase' = "resized"
  /\ lastEvent' = Event("resize", Null)
  /\ UNCHANGED <<targetRect, tooltip, coords, apiData, weeks>>
  /\ UNCHANGED <<data, loading, error, year, availableYears, hovered,
                 isMobile, activeTouch, inflight>>

NextResize ==
  \/ Place
  \/ ResizeTooltip

SpecResize == InitResize /\ [][NextResize]_vars

\* ---------------------------------------------------------------------------
\* The grid: processData and the weeks memo.

\* longest contributions list
MaxLen == 4
\* number of distinct valid dates in a contributions list
MaxGridDays == 3

\* longest gap-free run of days, as the API returns them
MaxRunLen == 10

\* consecutive ISO days; the first, 2025-01-09, is a Thursday
IsoDays == <<"2025-01-09", "2025-01-10", "2025-01-11", "2025-01-12",
             "2025-01-13", "2025-01-14", "2025-01-15", "2025-01-16",
             "2025-01-17", "2025-01-18", "2025-01-19", "2025-01-20",
             "2025-01-21", "2025-01-22", "2025-01-23", "2025-01-24",
             "2025-01-25", "2025-01-26", "2025-01-27", "2025-01-28",
             "2025-01-29">>
\* a date that is not an ISO day
Malformed == "not-a-date"
GridDates == {IsoDays[k] : k \in 1..MaxGridDays} \cup {Malformed}

\* a Contribution: its date and count (level rides along with count)
Contributions == [date : GridDates, count : {0, 3}]

\* lists of at most len elements of S
RECURSIVE ListsUpTo(_, _)
ListsUpTo(S, len) ==
  IF len = 0 THEN {<<>>}
  ELSE LET shorter == ListsUpTo(S, len - 1)
       IN shorter \cup {Append(l, x) : l \in {m \in shorter : Len(m) = len - 1},
                                       x \in S}

\* len consecutive days from IsoDays[start] on, one record a day
Run(start, len) ==
  [i \in 1..len |-> [date |-> IsoDays[start + i - 1], count |-> 3]]

\* the value of `data` the weeks memo sees: data?.contributions is a list
\* (any short list, or a gap-free run of days), or is missing (data is null
\* or has no such field)
ApiDatas ==
  {[present |-> FALSE, contributions |-> <<>>]}
  \cup {[present |-> TRUE, contributions |-> l] :
          l \in ListsUpTo(Contributions, MaxLen)}
  \cup {[present |-> TRUE, contributions |-> Run(start, len)] :
          start \in 1..MaxGridDays, len \in (MaxLen + 1)..MaxRunLen}

IsIsoDay(s) == \E k \in DOMAIN IsoDays : IsoDays[k] = s

\* parseISO: the day, counted from Sunday 2025-01-05, or Invalid Date
parseISO(s) ==
  IF IsIsoDay(s)
  THEN [valid |-> TRUE, day |-> 3 + (CHOOSE k \in DOMAIN IsoDays : IsoDays[k] = s)]
  ELSE [valid |-> FALSE, day |-> 0]

\* a negative number stands for NaN: i < NaN is false, as i < -1 is for i >= 0
NaN == -1

getDay_MondayFirst(date) ==
  IF date.valid THEN (date.day + 6) % 7 ELSE NaN

\* getDay: 0 = Sunday .. 6 = Saturday; NaN for Invalid Date
getDay(date) ==
  IF date.valid THEN date.day % 7 ELSE NaN

\* a.localeCompare(b) <= 0, by the strings' collation rank: the ISO days in
\* calendar order, digits before letters
CollationRank(s) ==
  IF IsIsoDay(s) THEN CHOOSE k \in DOMAIN IsoDays : IsoDays[k] = s
  ELSE Len(IsoDays) + 1

sortByDate_Unsorted(list) == list

\* [...contributions].sort((a, b) => a.date.localeCompare(b.date)): a stable
\* sort, on a copy
RECURSIVE sortByDate(_)
sortByDate(list) ==
  IF list = <<>> THEN <<>>
  ELSE LET front == sortByDate(SubSeq(list, 1, Len(list) - 1))
           x == list[Len(list)]
           k == Cardinality({i \in DOMAIN front :
                  CollationRank(front[i].date) <= CollationRank(x.date)})
       IN SubSeq(front, 1, k) \o <<x>> \o SubSeq(front, k + 1, Len(front))

\* an empty slot
NullSlot == [date |-> Null, count |-> 0]

\* k pushes of null
Nulls(k) == [i \in 1..k |-> NullSlot]

\* sorted.forEach: push the day, close the week at 7 slots.  The result is
\* the pair (weeks, currentWeek) after the days from index i on.
RECURSIVE forEachDay(_, _, _, _)
forEachDay(sorted, i, weeksSoFar, currentWeek) ==
  IF i > Len(sorted) THEN [weeks |-> weeksSoFar, currentWeek |-> currentWeek]
  ELSE LET pushed == Append(currentWeek, sorted[i])
       IN IF Len(pushed) = 7
          THEN forEachDay(sorted, i + 1, Append(weeksSoFar, pushed), <<>>)
          ELSE forEachDay(sorted, i + 1, weeksSoFar, pushed)

buildWeeks_PadsFront(contributions) ==
  LET sorted == sortByDate(contributions)
      startDate == parseISO(sorted[1].date)
      startDay == getDay(startDate)
      filled == forEachDay(sorted, 1, <<>>, Nulls(startDay))
  IN IF Len(filled.currentWeek) > 0
     THEN Append(filled.weeks,
                 Nulls(7 - Len(filled.currentWeek)) \o filled.currentWeek)
     ELSE filled.weeks

\* the part of processData after the empty check
buildWeeks(contributions) ==
  LET sorted == sortByDate(contributions)
      startDate == parseISO(sorted[1].date)
      startDay == getDay(startDate)
      filled == forEachDay(sorted, 1, <<>>, Nulls(startDay))
  IN IF Len(filled.currentWeek) > 0
     THEN Append(filled.weeks,
                 filled.currentWeek \o Nulls(7 - Len(filled.currentWeek)))
     ELSE filled.weeks

processData_PadsEmpty(contributions) ==
  IF Len(contributions) = 0 THEN <<Nulls(7)>>
  ELSE buildWeeks(contributions)

RECURSIVE dropRepeatedDates(_)
dropRepeatedDates(list) ==
  IF Len(list) <= 1 THEN list
  ELSE LET front == dropRepeatedDates(SubSeq(list, 1, Len(list) - 1))
           x == list[Len(list)]
       IN IF \E i \in DOMAIN front : front[i].date = x.date THEN front
          ELSE Append(front, x)

processData_Deduplicates(contributions) ==
  IF Len(contributions) = 0 THEN <<>>
  ELSE buildWeeks(dropRepeatedDates(contributions))

processData(contributions) ==
  IF Len(contributions) = 0 THEN <<>>
  ELSE buildWeeks(contributions)

\* const weeks = useMemo(...)
weeksMemo(d) ==
  IF ~d.present THEN <<>> ELSE processData(d.contributions)

\* a response has been stored in data; the memo has not run yet
InitGrid ==
  /\ WidgetInit
  /\ isMobile = FALSE
  /\ phase = "data"
  /\ apiData \in ApiDatas
  /\ weeks = <<>>
  /\ targetRect = Null
  /\ tooltip = Null
  /\ viewportWidth = Null
  /\ coords = Null

\* the render that follows setData
RenderGrid ==
  /\ phase = "data"
  /\ weeks' = weeksMemo(apiData)
  /\ phase' = "grid"
  /\ UNCHANGED <<targetRect, tooltip, viewportWidth, coords, apiData>>
  /\ UNCHANGED widgetVars

NextGrid == RenderGrid

SpecGrid == InitGrid /\ [][NextGrid]_vars

\* ----- shorthands used by the properties -----
Y == availableYears
n == Len(availableYears)
Requested(reqs, token) == \E i \in DOMAIN reqs : reqs[i].y = token

\* ---------------------------------------------------------------------------
\* the selector prevYear must leave, as the specification words it (Y is
\* 1-based here): 'last' -> Y[0]; Y[i] -> Y[i+1] if i+1 < n; else unchanged
C1_Expected ==
  IF year = Last THEN (IF n > 0 THEN Y[1] ELSE year)
  ELSE IF \E i \in 1..(n - 1) : Y[i] = year
  THEN Y[(CHOOSE i \in 1..(n - 1) : Y[i] = year) + 1]
  ELSE year

\* the selector nextYear must leave: Y[0] -> 'last'; Y[i], i > 0 -> Y[i-1];
\* 'last' unchanged
C2_Expected ==
  IF year = Last THEN year
  ELSE IF n > 0 /\ Y[1] = year THEN Last
  ELSE IF \E i \in 2..n : Y[i] = year
  THEN Y[(CHOOSE i \in 2..n : Y[i] = year) - 1]
  ELSE year

\* C1: prevYear goes from 'last' to Y[0] when the list is non-empty, from Y[i]
\* to Y[i+1] when i+1 < n, and leaves the selector unchanged at the oldest
\* year Y[n-1] and at 'last' with an empty list; both for the handler's result
\* in every reachable state and for every click that is dispatched.
C1_PrevYear ==
  [][ /\ handleYearChange("prev") = C1_Expected
      /\ (lastEvent'.type = "prev" => year' = C1_Expected) ]_vars

\* prevYear has walked Y = [y0, y1, y2] down to the oldest year, where a
\* further prevYear is a no-op
C1_Witness ==
  /\ lastEvent.type = "prev"
  /\ n = 3
  /\ year = Y[3]
  /\ handleYearChange("prev") = year

\* C2: nextYear goes from Y[0] to 'last', from Y[i] with i > 0 to Y[i-1], and
\* leaves the selector unchanged at 'last'.
C2_NextYear ==
  [][ /\ handleYearChange("next") = C2_Expected
      /\ (lastEvent'.type = "next" => year' = C2_Expected) ]_vars

\* nextYear has stepped from Y[0] back to 'last', where a further nextYear
\* is a no-op
C2_Witness ==
  /\ lastEvent.type = "next"
  /\ n >= 2
  /\ year = Last
  /\ handleYearChange("next") = year

\* C3: canGoNext is false exactly at 'last'; canGoPrev is false exactly when
\* the list is empty or the selector is the oldest year; each flag is true
\* exactly when the corresponding handler call would change the selector.
C3_FlagsAgree ==
  /\ canGoNext = (year # Last)
  /\ canGoPrev = ~(n = 0 \/ year = Y[n])
  /\ canGoPrev = (handleYearChange("prev") # year)
  /\ canGoNext = (handleYearChange("next") # year)

\* at the oldest of several years: prev is off, next is on
C3_Witness ==
  /\ lastEvent.type = "prev"
  /\ n >= 2
  /\ year = Y[n]
  /\ ~canGoPrev
  /\ canGoNext

\* C4: in touch-only mode a tap on a cell while no tooltip is shown opens
\* that cell's tooltip, and an open tooltip stays until a tap or an outside
\* interaction.
C4_FirstTapLatches ==
  [][ /\ (lastEvent'.type = "tap" /\ isMobile /\ hovered = Null
           => hovered' = lastEvent'.cell)
      /\ (isMobile /\ isMobile' /\ hovered # Null
           /\ lastEvent'.type \notin {"tap", "outside", "mount"}
           => hovered' = hovered) ]_vars

\* C5: in touch-only mode a tap on the cell whose tooltip is open closes it.
C5_SecondTapClears ==
  [][ lastEvent'.type = "tap" /\ isMobile /\ hovered # Null
      /\ lastEvent'.cell = hovered
      => hovered' = Null /\ activeTouch' = Null /\ ~TooltipShown' ]_vars

\* the open cell was tapped again and nothing is shown
C5_Witness ==
  /\ lastEvent.type = "tap"
  /\ isMobile
  /\ lastEvent.shown # Null
  /\ lastEvent.cell = lastEvent.shown
  /\ hovered = Null

\* C6: in touch-only mode a tap on cell B while cell A's tooltip is open
\* makes B the active cell in that one step.
C6_SwitchDirect ==
  [][ lastEvent'.type = "tap" /\ isMobile /\ hovered # Null
      /\ lastEvent'.cell # hovered
      => hovered' = lastEvent'.cell /\ activeTouch' = lastEvent'.cell ]_vars

\* B was tapped while A was open and B is now open
C6_Witness ==
  /\ lastEvent.type = "tap"
  /\ isMobile
  /\ lastEvent.shown # Null
  /\ lastEvent.cell # lastEvent.shown
  /\ hovered = lastEvent.cell

\* C7: in touch-only mode, while a tooltip is latched, an interaction outside
\* the cells and the tooltip clears hovered and activeTouch.
C7_OutsideDismisses ==
  [][ lastEvent'.type = "outside" /\ isMobile /\ hovered # Null
      => hovered' = Null /\ activeTouch' = Null ]_vars

\* C8: in pointer-capable mode a cell-enter makes that cell the active cell
\* and a cell-leave leaves no tooltip.
C8_HoverFollowsPointer ==
  [][ /\ (lastEvent'.type = "enter" /\ ~isMobile
           => hovered' = lastEvent'.cell)
      /\ (lastEvent'.type = "leave" /\ ~isMobile
           => hovered' = Null /\ ~TooltipShown') ]_vars

\* the pointer left a cell whose tooltip was open
C8_Witness ==
  /\ lastEvent.type = "leave"
  /\ ~isMobile
  /\ lastEvent.shown # Null
  /\ hovered = Null

\* C9: a change of the year selector leaves no tooltip displayed, and a
\* displayed tooltip always belongs to a cell of the rendered grid.
C9_YearChangeClearsTooltip ==
  [][ /\ (year' # year => ~TooltipShown')
      /\ (TooltipShown' => hovered' \in RenderedCells') ]_vars

\* C10: every click that changes the selector issues a fetch for the new
\* token and sets loading, and loading stays set while a fetch for the
\* selected token is in flight.
C10_YearChangeFetches ==
  [][ /\ (lastEvent'.type \in {"prev", "next"} /\ year' # year
           => loading' /\ Requested(inflight', year')
              /\ Len(inflight') = Len(inflight) + 1)
      /\ (Requested(inflight', year') => loading') ]_vars

\* a year step has just issued the fetch for an explicit year
C10_Witness ==
  /\ lastEvent.type = "prev"
  /\ year \in YearKeys
  /\ loading
  /\ inflight = <<Request(year, n)>>

\* the sequence s lists exactly the keys K, each once, in numerically
\* descending order
C11_DescendingListOf(s, K) ==
  /\ {s[i] : i \in DOMAIN s} = K
  /\ Len(s) = Cardinality(K)
  /\ \A i \in 1..(Len(s) - 1) : Number(s[i]) > Number(s[i + 1])

\* C11: within a page load the available-years list is assigned only by the
\* first successful response, to that response's total keys without
\* 'lastYear' in numerically descending order; once it is non-empty no
\* response, navigation step or other event changes it.
C11_YearsSetOnce ==
  [][ lastEvent'.type # "mount" =>
      /\ (lastEvent'.type = "resolve" /\ data = NullData
           => C11_DescendingListOf(availableYears',
                                   lastEvent'.total \ {"lastYear"}))
      /\ (availableYears' # availableYears
           => lastEvent'.type = "resolve" /\ data = NullData)
      /\ (availableYears # <<>> => availableYears' = availableYears) ]_vars

\* a later response with other year keys has arrived and the list of two
\* years discovered first is still in place
C11_Witness ==
  /\ lastEvent.type = "resolve"
  /\ n = 2
  /\ Number(Y[1]) > Number(Y[2])
  /\ lastEvent.total \ {"lastYear"} # {Y[1], Y[2]}
  /\ lastEvent.total # {}

\* ----- shorthands for the placement properties -----
Placed == phase = "placed"
ideal == targetRect.left + targetRect.width \div 2
half == tooltip.width \div 2
LeftCondition == ideal - half < padding
RightCondition == ideal + half > viewportWidth - padding

C13_VerticalRule ==
  Placed =>
    /\ coords.flipped = (targetRect.top < tooltip.height + 8 + 12)
    /\ (coords.flipped => coords.top = targetRect.bottom + 8)
    /\ (~coords.flipped => coords.top = targetRect.top - 8)

\* the specification's example: anchor.top = 5, height = 40
C13_Witness ==
  /\ Placed
  /\ targetRect.top = 5
  /\ tooltip.height = 40
  /\ coords.flipped
  /\ coords.top = targetRect.bottom + 8

\* C14: whenever idealCenter - width/2 < padding the placed center is
\* padding + width/2 and arrowOffset = idealCenter - (padding + width/2).
C14_LeftClamp ==
  Placed /\ LeftCondition
  => /\ coords.left = 12 + half
     /\ coords.left - half = 12
     /\ coords.arrowOffset = ideal - (12 + half)

\* the specification's example: center x = 5, width = 100
C14_Witness ==
  /\ Placed
  /\ ideal = 5
  /\ tooltip.width = 100
  /\ coords.left = 62
  /\ coords.arrowOffset = -57

\* C15 as stated: whenever idealCenter + width/2 > viewportWidth - padding
\* the placed center is viewportWidth - padding - width/2, also when the
\* left-clamp condition holds.
C15_RightClampAlways ==
  Placed /\ RightCondition
  => /\ coords.left = viewportWidth - 12 - half
     /\ coords.left + half = viewportWidth - 12

\* C15 amended: whenever idealCenter + width/2 > viewportWidth - padding and
\* the left-clamp condition does not hold, the placed center is
\* viewportWidth - padding - width/2.
C15_RightClamp ==
  Placed /\ RightCondition /\ ~LeftCondition
  => /\ coords.left = viewportWidth - 12 - half
     /\ coords.left + half = viewportWidth - 12

\* the right clamp moved the tooltip left of its ideal centre
C15_Witness ==
  /\ Placed
  /\ RightCondition
  /\ ~LeftCondition
  /\ coords.left < ideal
  /\ coords.left + half = viewportWidth - 12

\* C16: arrowOffset = idealCenter - placedCenter for every placement, and
\* arrowOffset is 0 exactly when neither clamp applied.
C16_ArrowOffset ==
  Placed =>
    /\ coords.arrowOffset = ideal - coords.left
    /\ coords.left + coords.arrowOffset = targetRect.left + targetRect.width \div 2
    /\ (coords.arrowOffset = 0) = (~LeftCondition /\ ~RightCondition)

\* a right clamp with a positive arrow offset
C16_Witness ==
  /\ Placed
  /\ RightCondition
  /\ ~LeftCondition
  /\ coords.arrowOffset > 0
  /\ coords.left + coords.arrowOffset = ideal

\* ----- shorthands for the grid properties -----
GridBuilt == phase = "grid"
input == apiData.contributions
AllIsoDays == \A i \in DOMAIN input : IsIsoDay(input[i].date)

\* weekday index (0 = Sunday) of the earliest date of the input
LeadingPad ==
  LET first == CHOOSE k \in DOMAIN IsoDays :
                 /\ \E i \in DOMAIN input : input[i].date = IsoDays[k]
                 /\ \A i \in DOMAIN input :
                      \A j \in DOMAIN IsoDays : input[i].date = IsoDays[j] => k <= j
  IN (first + 3) % 7

\* the slots of all columns, in column order then slot order
RECURSIVE Flatten(_)
Flatten(cols) ==
  IF cols = <<>> THEN <<>> ELSE Head(cols) \o Flatten(Tail(cols))

NonEmptySlots == SelectSeq(Flatten(weeks), LAMBDA slot : slot # NullSlot)

Occurrences(list, x) == Cardinality({i \in DOMAIN list : list[i] = x})

Records(list) == {list[i] : i \in DOMAIN list}

\* C17: for a non-empty list of n records (ISO days) whose earliest date has
\* weekday index p, processData returns ceil((n + p) / 7) columns and every
\* column has 7 slots.
C17_ColumnCount ==
  GridBuilt /\ apiData.present /\ Len(input) > 0 /\ AllIsoDays
  => /\ Len(weeks) = (Len(input) + LeadingPad + 6) \div 7
     /\ \A w \in DOMAIN weeks : Len(weeks[w]) = 7

\* four records from a Thursday on fill two columns
C17_Witness ==
  /\ GridBuilt
  /\ apiData.present
  /\ AllIsoDays
  /\ Len(input) = 4
  /\ LeadingPad = 4
  /\ Len(weeks) = 2

\* C18: the non-empty slots, in column order then slot order, are the input
\* records sorted ascending by date: every record as often as in the input
\* (duplicate dates kept, in input order), nothing else.
C18_RoundTrip ==
  GridBuilt /\ apiData.present
  => /\ Len(NonEmptySlots) = Len(input)
     /\ \A x \in Records(input) \cup Records(NonEmptySlots) :
          Occurrences(NonEmptySlots, x) = Occurrences(input, x)
     /\ \A i \in 1..(Len(NonEmptySlots) - 1) :
          CollationRank(NonEmptySlots[i].date)
            <= CollationRank(NonEmptySlots[i + 1].date)
     /\ Len(Flatten(weeks)) >= Len(input)

\* an unsorted input with a repeated date came back sorted, both records kept
C18_Witness ==
  /\ GridBuilt
  /\ apiData.present
  /\ Len(input) = 3
  /\ input[1].date = IsoDays[2]
  /\ input[2].date = IsoDays[1]
  /\ input[3].date = IsoDays[2]
  /\ input[1].count # input[3].count
  /\ NonEmptySlots = <<input[2], input[1], input[3]>>

\* C19: an empty contributions list and a response without a contributions
\* list both give a grid of zero columns.
C19_EmptyInputEmptyGrid ==
  GridBuilt /\ (~apiData.present \/ Len(input) = 0) => weeks = <<>>

\* the memo ran on a response without a contributions list
C19_Witness ==
  /\ GridBuilt
  /\ ~apiData.present
  /\ weeks = <<>>

\* C20: a contributions list holding a record whose date is not a valid ISO
\* day gives a grid of zero columns.
C20_MalformedEmptyGrid ==
  GridBuilt /\ apiData.present
  /\ (\E i \in DOMAIN input : ~IsIsoDay(input[i].date))
  => weeks = <<>>

\* ----- more shorthands for the grid properties -----
DistinctDates ==
  \A i, j \in DOMAIN input : input[i].date = input[j].date => i = j

IsEmptySlot(w, d) == weeks[w][d] = NullSlot

\* weekday index (0 = Sunday) of an ISO day of the calendar
Weekday(s) == ((CHOOSE k \in DOMAIN IsoDays : IsoDays[k] = s) + 3) % 7

\* the list with the elements at i and j exchanged
Swap(list, i, j) ==
  [k \in DOMAIN list |->
     IF k = i THEN list[j] ELSE IF k = j THEN list[i] ELSE list[k]]

\* C21: in every grid processData returns, an empty slot lies in the leading
\* run of empty slots of the first column or in the trailing run of empty
\* slots of the last column; no other slot is empty.
C21_PaddingOnlyAtEnds ==
  GridBuilt /\ apiData.present =>
    \A w \in DOMAIN weeks : \A d \in DOMAIN weeks[w] :
      IsEmptySlot(w, d) =>
        \/ w = 1 /\ \A e \in 1..d : IsEmptySlot(w, e)
        \/ w = Len(weeks) /\ \A e \in d..Len(weeks[w]) : IsEmptySlot(w, e)

\* three columns: the first starts with empty slots, the middle one is full,
\* the last ends with empty slots
C21_Witness ==
  /\ GridBuilt
  /\ apiData.present
  /\ Len(weeks) = 3
  /\ IsEmptySlot(1, 1)
  /\ ~IsEmptySlot(1, 7)
  /\ \A d \in 1..7 : ~IsEmptySlot(2, d)
  /\ ~IsEmptySlot(3, 1)
  /\ IsEmptySlot(3, 7)

\* C22: for every list of records with distinct ISO days, contiguous or
\* sparse, the record in slot d of a column falls on weekday d (0 = Sunday),
\* and the non-empty slots of a column hold consecutive calendar dates.
C22_WeekAligned ==
  GridBuilt /\ apiData.present /\ AllIsoDays /\ DistinctDates =>
    \A w \in DOMAIN weeks : \A d \in DOMAIN weeks[w] :
      ~IsEmptySlot(w, d) =>
        /\ Weekday(weeks[w][d].date) = d - 1
        /\ (d < Len(weeks[w]) /\ ~IsEmptySlot(w, d + 1)
             => CollationRank(weeks[w][d + 1].date)
                  = CollationRank(weeks[w][d].date) + 1)

\* C23: for a list of records with distinct dates, processData returns the
\* same grid for the list with any two records exchanged (hence, exchanges
\* generating every reordering, for every permutation) and for the same list
\* again; the stored list is handed back untouched.
C23_OrderIndependent ==
  [][ phase' = "grid" /\ apiData.present /\ DistinctDates =>
        /\ apiData' = apiData
        /\ weeks' = weeksMemo(apiData)
        /\ \A i, j \in DOMAIN input :
             weeks' = weeksMemo([present |-> TRUE,
                                 contributions |-> Swap(input, i, j)]) ]_vars

\* a list given newest first came out oldest first
C23_Witness ==
  /\ GridBuilt
  /\ apiData.present
  /\ DistinctDates
  /\ Len(input) = 3
  /\ CollationRank(input[1].date) > CollationRank(input[2].date)
  /\ CollationRank(input[2].date) > CollationRank(input[3].date)
  /\ NonEmptySlots = <<input[3], input[2], input[1]>>

\* C24: after a window resize with a tooltip open, the tooltip is dismissed
\* or its placement is the one computed against the new viewport width.
C24_PlacementFollowsResize ==
  phase = "resized" =>
    \/ ~TooltipShown
    \/ /\ coords.left = placeLeft(targetRect, tooltip, viewportWidth)
       /\ coords.arrowOffset
            = placeArrowOffset(targetRect, tooltip, viewportWidth)

C26_CellEventsOnlyMoveTooltip ==
  [][ lastEvent'.type \in {"enter", "leave", "tap"}
      => /\ inflight' = inflight
         /\ year' = year
         /\ availableYears' = availableYears
         /\ data' = data
         /\ loading' = loading
         /\ error' = error ]_vars

\* a tap opened a tooltip on the grid of an explicit year, nothing in flight
C26_Witness ==
  /\ lastEvent.type = "tap"
  /\ hovered = lastEvent.cell
  /\ year \in YearKeys
  /\ ~loading
  /\ inflight = <<>>

\* C27: isMobile changes only at mount and on a resize; no cell event,
\* navigation step or fetch completion changes it, and the mouse handlers act
\* on the stored mode (in touch-only mode they leave everything as it is).
C27_ModeOnlyOnResize ==
  [][ /\ (isMobile' # isMobile => lastEvent'.type \in {"mount", "resize"})
      /\ (lastEvent'.type \in {"enter", "leave"} /\ isMobile
           => hovered' = hovered /\ activeTouch' = activeTouch) ]_vars

\* a tap in pointer-capable mode has opened a tooltip; the mode is as it was
C27_Witness ==
  /\ lastEvent.type = "tap"
  /\ ~isMobile
  /\ hovered = lastEvent.cell
  /\ activeTouch = lastEvent.cell

\* C28: in every reachable state year is 'last' or an element of
\* availableYears; an explicit year never has index -1, and the handler
\* never yields undefined or a year outside the list.
C28_YearInList ==
  /\ year = Last \/ \E i \in DOMAIN availableYears : availableYears[i] = year
  /\ (year # Last => currentYearIndex # -1)
  /\ \A dir \in {"prev", "next"} :
       /\ handleYearChange(dir) # Undefined
       /\ handleYearChange(dir) = Last
            \/ \E i \in DOMAIN availableYears :
                 availableYears[i] = handleYearChange(dir)

\* nextYear has stepped from Y[1] back to the newest year Y[0]
C28_Witness ==
  /\ lastEvent.type = "next"
  /\ n >= 2
  /\ year # Last
  /\ currentYearIndex = 0

\* C29: after a prevYear step taken where canGoPrev holds, nextYear is
\* enabled and leads back to the selector before the step; after a nextYear
\* step taken where canGoNext holds, prevYear is enabled and leads back.
C29_PrevNextInverse ==
  [][ /\ (lastEvent'.type = "prev" /\ canGoPrev
           => canGoNext' /\ handleYearChange("next")' = year)
      /\ (lastEvent'.type = "next" /\ canGoNext
           => canGoPrev' /\ handleYearChange("prev")' = year) ]_vars

\* prevYear has stepped from Y[0] to Y[1] of three years; nextYear would
\* lead back to Y[0]
C29_Witness ==
  /\ lastEvent.type = "prev"
  /\ n = 3
  /\ year = Y[2]
  /\ handleYearChange("next") = Y[1]

\* C30: in every reachable state hovered is null exactly when activeTouch is
\* null, and when both are set activeTouch is the date of hovered.
C30_InteractionVarsAgree ==
  /\ (hovered = Null) = (activeTouch = Null)
  /\ (hovered # Null /\ activeTouch # Null => activeTouch = hovered)

\* C31: whenever loading is false, error is null and data is non-null, data
\* is the response to the request made for the selected year token; at most
\* one fetch is in flight.
C31_DataMatchesSelector ==
  /\ (~loading /\ error = Null /\ data # NullData => data.y = year)
  /\ Len(inflight) <= 1

\* the fetch for an explicit year has resolved and its data is shown
C31_Witness ==
  /\ lastEvent.type = "resolve"
  /\ ~loading
  /\ error = Null
  /\ year \in YearKeys
  /\ data.y = year
  /\ inflight = <<>>

\* C32: a fetch is issued only at mount and by a year step that changes the
\* selector, one each; a fetch completion, the one that discovers the
\* available years included, issues none.
C32_OneFetchPerSelection ==
  [][ /\ (lastEvent'.type \in {"resolve", "reject"}
           => Len(inflight') = Len(inflight) - 1)
      /\ (lastEvent'.type \in {"prev", "next"} /\ year' # year
           => Len(inflight') = Len(inflight) + 1)
      /\ (lastEvent'.type \in {"enter", "leave", "tap", "outside", "resize"}
           => inflight' = inflight) ]_vars

\* C33: a failed fetch leaves error a message and loading false, and year,
\* availableYears and data as they were; error goes back to null only in a
\* step that starts a fetch.
C33_FailureKeepsState ==
  [][ /\ (lastEvent'.type = "reject"
           => /\ error' \in ErrorMessages
              /\ ~loading'
              /\ year' = year
              /\ availableYears' = availableYears
              /\ data' = data)
      /\ (error # Null /\ error' = Null
           => /\ loading'
              /\ inflight' # <<>>
              /\ inflight'[Len(inflight')] = Request(year', Len(availableYears'))) ]_vars

\* the fetch for an explicit year failed; the data loaded before for 'last'
\* and the list of years are still in place
C33_Witness ==
  /\ lastEvent.type = "reject"
  /\ error # Null
  /\ ~loading
  /\ year \in YearKeys
  /\ data.y = Last
  /\ n > 0

\* C34: if every fetch in flight is eventually settled, loading = true is
\* always followed by loading = false.
C34_LoadingEnds == loading ~> ~loading

\* the fetch issued on discovering the years has resolved: loading is false
C34_Witness ==
  /\ lastEvent.type = "resolve"
  /\ ~loading
  /\ n > 0
  /\ year = Last
  /\ data.y = Last
  /\ inflight = <<>>
====
